---- MODULE Spec2Model ----
(***************************************************************************)
(* Verification model of the project-environment resource of the           *)
(* SemaphoreUI Terraform provider                                          *)
(* (src/internal/provider/project_environment_resource.go):                *)
(*   - convertProjectEnvironmentModelToEnvironmentRequest, the secret diff *)
(*   - convertEnvironmentResponseToProjectEnvironmentModel, the merge      *)
(*   - the Create / Read / Update / Delete / ImportState handlers, with    *)
(*     the API calls they make                                             *)
(***************************************************************************)
EXTENDS Integers, Sequences, FiniteSets, TLC

VARIABLES
    env,          \* diff input: the desired ProjectEnvironmentModel (plan)
    prev,         \* diff / merge input: the previous ProjectEnvironmentModel
    request,      \* diff output: the models.EnvironmentRequest
    environment,  \* merge input: the models.Environment of the read response
    model,        \* merge output: [panic, val]
    tfstate,      \* the persisted Terraform state: [set, val]
    server,       \* the remote environment: [exists, JSON, Env, Secrets]
    nextID,       \* the next secret identity the remote server assigns
    configured,   \* history: identity -> value the user last configured
    last,         \* the handler that ran last and how it ended
    trace,        \* the traced handler run: [handler, calls, error]
    importID      \* the identifier handed to the traced ImportState

vars == <<env, prev, request, environment, model, tfstate, server, nextID, configured,
          last, trace, importID>>

(***************************************************************************)
(* Bounds                                                                  *)
(***************************************************************************)
MaxDesired == 2      \* longest desired secret list of the diff inputs
MaxID == 2           \* largest secret identity of the diff and merge inputs
MaxServer == 2       \* longest secret list of a read response (merge inputs)
MaxPrev == 2         \* longest previous secret list of the merge inputs
MaxPlan == 2         \* longest secret list of a plan given to Create / Update
MaxServerID == 2     \* the remote server assigns the identities 1..MaxServerID

(***************************************************************************)
(* Framework values: types.Int64 and types.List are null, unknown or known *)
(***************************************************************************)
Int64Null == [st |-> "null", v |-> 0]
Int64Unknown == [st |-> "unknown", v |-> 0]
Int64Value(n) == [st |-> "known", v |-> n]
\* types.Int64.IsNull / IsUnknown / ValueInt64 (zero unless known)
IsNull(x) == x.st = "null"
IsUnknown(x) == x.st = "unknown"
ValueInt64(x) == IF x.st = "known" THEN x.v ELSE 0

ListNull == [st |-> "null", elems |-> <<>>]
ListUnknown == [st |-> "unknown", elems |-> <<>>]
ListValue(s) == [st |-> "known", elems |-> s]

\* *map[string]string: nil, or a pointer to a map (a set of <<key, value>>)
NilMap == [isNil |-> TRUE, m |-> {}]
PtrMap(m) == [isNil |-> FALSE, m |-> m]

\* ProjectEnvironmentSecretModel{ID, Name, Type, Value}
SecretModel(id, name, type, value) ==
    [ID |-> id, Name |-> name, Type |-> type, Value |-> value]

\* ProjectEnvironmentModel{ID, ProjectID, Name, Variables, Environment, Secrets}
EnvironmentModel(id, vars_, envs, secrets) ==
    [ID |-> id, ProjectID |-> Int64Value(1), Name |-> "e",
     Variables |-> vars_, Environment |-> envs, Secrets |-> secrets]

\* &ProjectEnvironmentModel{}: the zero value, every attribute null / nil
ZeroModel ==
    [ID |-> Int64Null, ProjectID |-> Int64Null, Name |-> "",
     Variables |-> NilMap, Environment |-> NilMap, Secrets |-> ListNull]

(***************************************************************************)
(* ProjectEnvironmentModel.Secret: the first secret whose ID equals id,    *)
(* nil when the list is null or unknown or holds no such secret.           *)
(***************************************************************************)
NilSecret == [nil |-> TRUE, s |-> SecretModel(Int64Null, "", "", "")]

RECURSIVE FirstByID(_, _, _)
FirstByID(secrets, id, i) ==
    IF i > Len(secrets) THEN NilSecret
    ELSE IF secrets[i].ID = id THEN [nil |-> FALSE, s |-> secrets[i]]
    ELSE FirstByID(secrets, id, i + 1)

Secret(m, id) ==
    IF IsNull(m.Secrets) \/ IsUnknown(m.Secrets) THEN NilSecret
    ELSE FirstByID(m.Secrets.elems, id, 1)

(***************************************************************************)
(* ProjectEnvironmentModel.SecretValue: the value of the first secret with *)
(* that name and type, the empty string otherwise.                         *)
(***************************************************************************)
RECURSIVE FirstByNameType(_, _, _, _)
FirstByNameType(secrets, name, varType, i) ==
    IF i > Len(secrets) THEN ""
    ELSE IF secrets[i].Name = name /\ secrets[i].Type = varType THEN secrets[i].Value
    ELSE FirstByNameType(secrets, name, varType, i + 1)

SecretValue(m, name, varType) ==
    IF IsNull(m.Secrets) \/ IsUnknown(m.Secrets) THEN ""
    ELSE FirstByNameType(m.Secrets.elems, name, varType, 1)

(***************************************************************************)
(* json.Marshal of a *map[string]string, over the maps of the model.       *)
(* A ' in a text stands for the double quote of the JSON text.             *)
(***************************************************************************)
Maps == {{}, {<<"a", "b">>}}

Marshal(m) == IF m = {} THEN "{}" ELSE "{'a':'b'}"

(***************************************************************************)
(* convertProjectEnvironmentModelToEnvironmentRequest                      *)
(***************************************************************************)
\* models.EnvironmentSecretRequest{ID, Name, Type, Secret, Operation}
SecretRequest(id, name, type, secret, op) ==
    [ID |-> id, Name |-> name, Type |-> type, Secret |-> secret, Operation |-> op]

\* Faulty variants of the loop body and of the delete loop, used to show that
\* the properties below depend on the code: "update-unchanged" sends an update
\* for an unchanged secret, "create-unmatched" creates a secret whose identity
\* has no previous secret, "match-by-name" takes a secret without identity
\* for the previous secret of the same name and type.
EnvSecretRequestVariant(secret, prevModel, variant) ==
    LET modelSecret == SecretRequest(0, secret.Name, secret.Type, "", "")
        noID == IsUnknown(secret.ID) \/ IsNull(secret.ID)
        prevSecret == Secret(prevModel, secret.ID)
        sameName == \E i \in 1..Len(prevModel.Secrets.elems) :
                        /\ prevModel.Secrets.elems[i].Name = secret.Name
                        /\ prevModel.Secrets.elems[i].Type = secret.Type
    IN  IF noID /\ ~(variant = "match-by-name" /\ sameName)
        THEN [modelSecret EXCEPT !.Operation = "create", !.Secret = secret.Value]
        ELSE IF noID THEN modelSecret
        ELSE IF prevSecret.nil
        THEN IF variant = "create-unmatched"
             THEN [modelSecret EXCEPT !.ID = ValueInt64(secret.ID),
                                      !.Operation = "create",
                                      !.Secret = secret.Value]
             ELSE [modelSecret EXCEPT !.ID = ValueInt64(secret.ID)]
        ELSE IF secret = prevSecret.s /\ variant # "update-unchanged"
        THEN [modelSecret EXCEPT !.ID = ValueInt64(secret.ID)]
        ELSE [modelSecret EXCEPT
                 !.ID = ValueInt64(secret.ID),
                 !.Operation = "update",
                 !.Secret = IF secret.Value # prevSecret.s.Value
                            THEN secret.Value ELSE @]

EnvSecretRequest_UpdateUnchanged(secret, prevModel) ==
    EnvSecretRequestVariant(secret, prevModel, "update-unchanged")

EnvSecretRequest_CreateUnmatched(secret, prevModel) ==
    EnvSecretRequestVariant(secret, prevModel, "create-unmatched")

EnvSecretRequest_MatchByName(secret, prevModel) ==
    EnvSecretRequestVariant(secret, prevModel, "match-by-name")

\* the body of the loop over envSecrets: the request entry of one secret.
\* modelSecret starts with the secret's Name and Type (lines 129-132); the
\* branches then set Operation, ID, Secret and re-assign Name and Type.
EnvSecretRequest(secret, prevModel) ==
    LET modelSecret == SecretRequest(0, secret.Name, secret.Type, "", "")
    IN  IF IsUnknown(secret.ID) \/ IsNull(secret.ID)
        THEN [modelSecret EXCEPT !.Operation = "create", !.Secret = secret.Value]
        ELSE LET withID == [modelSecret EXCEPT !.ID = ValueInt64(secret.ID)]
                 prevSecret == Secret(prevModel, secret.ID)
             IN  IF ~prevSecret.nil
                    /\ (secret.Name # prevSecret.s.Name
                        \/ secret.Value # prevSecret.s.Value
                        \/ secret.Type # prevSecret.s.Type)
                 THEN [withID EXCEPT
                          !.Operation = "update",
                          !.Name = IF secret.Name # prevSecret.s.Name
                                   THEN secret.Name ELSE @,
                          !.Secret = IF secret.Value # prevSecret.s.Value
                                     THEN secret.Value ELSE @,
                          !.Type = IF secret.Type # prevSecret.s.Type
                                   THEN secret.Type ELSE @]
                 ELSE withID

\* Faulty variant of the delete loop: the delete also carries the name.
RECURSIVE DeleteRequests_WithName(_, _, _)
DeleteRequests_WithName(prevSecrets, envModel, i) ==
    IF i > Len(prevSecrets) THEN <<>>
    ELSE (IF Secret(envModel, prevSecrets[i].ID).nil
          THEN <<SecretRequest(ValueInt64(prevSecrets[i].ID), prevSecrets[i].Name,
                               prevSecrets[i].Type, "", "delete")>>
          ELSE <<>>)
         \o DeleteRequests_WithName(prevSecrets, envModel, i + 1)

\* the loop over prevSecrets: a delete for each one with no desired secret
RECURSIVE DeleteRequests(_, _, _)
DeleteRequests(prevSecrets, envModel, i) ==
    IF i > Len(prevSecrets) THEN <<>>
    ELSE (IF Secret(envModel, prevSecrets[i].ID).nil
          THEN <<SecretRequest(ValueInt64(prevSecrets[i].ID), "",
                               prevSecrets[i].Type, "", "delete")>>
          ELSE <<>>)
         \o DeleteRequests(prevSecrets, envModel, i + 1)

ListElements(l) == IF IsNull(l) \/ IsUnknown(l) THEN <<>> ELSE l.elems

convertProjectEnvironmentModelToEnvironmentRequest(envModel, prevModel) ==
    LET envSecrets == ListElements(envModel.Secrets)
        prevSecrets == ListElements(prevModel.Secrets)
    IN  [ProjectID |-> ValueInt64(envModel.ProjectID),
         Name |-> envModel.Name,
         ID |-> IF ~IsNull(envModel.ID) /\ ~IsUnknown(envModel.ID)
                THEN ValueInt64(envModel.ID) ELSE 0,
         JSON |-> IF envModel.Variables.isNil THEN "{}"
                  ELSE Marshal(envModel.Variables.m),
         Env |-> IF envModel.Environment.isNil THEN "{}"
                 ELSE Marshal(envModel.Environment.m),
         Secrets |-> [i \in 1..Len(envSecrets) |->
                          EnvSecretRequest(envSecrets[i], prevModel)]
                     \o DeleteRequests(prevSecrets, envModel, 1)]

(***************************************************************************)
(* json.Unmarshal([]byte(text), &ptr) for ptr a nil *map[string]string,    *)
(* over the texts of the model: whether it returns an error and what ptr   *)
(* points to afterwards. A JSON object allocates the map; the literal null *)
(* is no error and leaves ptr nil; a syntax error leaves ptr untouched; a  *)
(* value of another JSON type is an UnmarshalTypeError.                    *)
(***************************************************************************)
ObjectTexts == {"{}", "{'a':'b'}"}
JSONTexts == ObjectTexts \cup {"null", "", "{oops", "[]", "7", "{'a':7}"}

Unmarshal(text) ==
    CASE text = "{}" -> [err |-> FALSE, ptr |-> PtrMap({})]
      [] text = "{'a':'b'}" -> [err |-> FALSE, ptr |-> PtrMap({<<"a", "b">>})]
      [] text = "null" -> [err |-> FALSE, ptr |-> NilMap]
      [] text \in {"", "{oops"} -> [err |-> TRUE, ptr |-> NilMap]
      [] OTHER -> [err |-> TRUE, ptr |-> PtrMap({})]

\* Faulty variant: an empty server map always merges to nil
MergeMap_NilWhenEmpty(text, prevMap) ==
    LET u == Unmarshal(text)
        decoded == IF u.err THEN PtrMap({}) ELSE u.ptr
    IN  IF decoded.isNil THEN [panic |-> TRUE, ptr |-> NilMap]
        ELSE IF Cardinality(decoded.m) = 0
        THEN [panic |-> FALSE, ptr |-> NilMap]
        ELSE [panic |-> FALSE, ptr |-> decoded]

\* Lines 193-198 for Variables and 200-205 for Environment: decode the text,
\* an error gives the empty map; len(*ptr) dereferences the pointer, which
\* panics when it is nil; an empty map becomes nil when prev's field is nil.
MergeMap(text, prevMap) ==
    LET u == Unmarshal(text)
        decoded == IF u.err THEN PtrMap({}) ELSE u.ptr
    IN  IF decoded.isNil THEN [panic |-> TRUE, ptr |-> NilMap]
        ELSE IF Cardinality(decoded.m) = 0 /\ prevMap.isNil
        THEN [panic |-> FALSE, ptr |-> NilMap]
        ELSE [panic |-> FALSE, ptr |-> decoded]

(***************************************************************************)
(* sort.Sort(ByEnvironmentID(secrets)): ascending by ID. For the short     *)
(* lists of the model sort.Sort is an insertion sort.                      *)
(***************************************************************************)
\* models.EnvironmentSecret{ID, Name, Type} of a read response
EnvironmentSecret(id, name, type) == [ID |-> id, Name |-> name, Type |-> type]

Less(a, b) == a.ID < b.ID

RECURSIVE Insert(_, _)
Insert(sorted, x) ==
    IF sorted = <<>> THEN <<x>>
    ELSE IF Less(x, sorted[Len(sorted)])
    THEN Insert(SubSeq(sorted, 1, Len(sorted) - 1), x) \o <<sorted[Len(sorted)]>>
    ELSE sorted \o <<x>>

\* Faulty variant: the secrets stay in the order of the response
SortByEnvironmentID_Unsorted(secrets) == secrets

RECURSIVE SortByEnvironmentID(_)
SortByEnvironmentID(secrets) ==
    IF secrets = <<>> THEN <<>>
    ELSE Insert(SortByEnvironmentID(SubSeq(secrets, 1, Len(secrets) - 1)),
                secrets[Len(secrets)])

(***************************************************************************)
(* convertEnvironmentResponseToProjectEnvironmentModel                     *)
(***************************************************************************)
\* Faulty variants of the value lookup: by name and type only; by identity only
MergedSecret_ByNameOnly(secret, prevModel) ==
    SecretModel(Int64Value(secret.ID), secret.Name, secret.Type,
                SecretValue(prevModel, secret.Name, secret.Type))

\* the body of the loop over environment.Secrets (lines 210-224)
MergedSecret(secret, prevModel) ==
    LET id == Int64Value(secret.ID)
        prevSecret == Secret(prevModel, id)
    IN  SecretModel(id, secret.Name, secret.Type,
                    IF ~prevSecret.nil THEN prevSecret.s.Value
                    ELSE SecretValue(prevModel, secret.Name, secret.Type))

\* Faulty variant: no fallback to the previous secrets on an empty response
MergedSecrets_NoFallback(secrets, prevModel) ==
    IF Len(secrets) = 0 THEN ListNull
    ELSE ListValue([i \in 1..Len(secrets) |-> MergedSecret(secrets[i], prevModel)])

\* Lines 209-238: one merged secret per (sorted) server secret; an empty
\* result takes the previous secrets when that list is neither null nor
\* unknown; types.ListValueFrom of a nil slice is the null list.
MergedSecrets(secrets, prevModel) ==
    LET merged == [i \in 1..Len(secrets) |-> MergedSecret(secrets[i], prevModel)]
    IN  IF Len(merged) = 0
        THEN IF ~IsNull(prevModel.Secrets) /\ ~IsUnknown(prevModel.Secrets)
             THEN ListValue(prevModel.Secrets.elems)
             ELSE ListNull
        ELSE ListValue(merged)

\* the result is [panic, val]: val is the returned model unless the call panics
convertEnvironmentResponseToProjectEnvironmentModel(response, prevModel) ==
    LET variables == MergeMap(response.JSON, prevModel.Variables)
        environmentVars == MergeMap(response.Env, prevModel.Environment)
    IN  IF variables.panic \/ environmentVars.panic
        THEN [panic |-> TRUE, val |-> ZeroModel]
        ELSE [panic |-> FALSE,
              val |-> [ID |-> Int64Value(response.ID),
                       ProjectID |-> Int64Value(response.ProjectID),
                       Name |-> response.Name,
                       Variables |-> variables.ptr,
                       Environment |-> environmentVars.ptr,
                       Secrets |-> MergedSecrets(
                                       SortByEnvironmentID(response.Secrets),
                                       prevModel)]]

(***************************************************************************)
(* Inputs of the diff: a desired model and the previous state it is        *)
(* diffed against. The previous secrets are those of a persisted state:    *)
(* known identities in ascending order (the merge sorts them), or the      *)
(* zero model Create passes.                                               *)
(***************************************************************************)
DesiredIDs == {Int64Null, Int64Unknown} \cup {Int64Value(n) : n \in 1..MaxID}

DesiredContents ==
    {<<"A", "env-var", "x">>, <<"B", "env-var", "x">>,
     <<"A", "file", "x">>, <<"A", "env-var", "y">>}

PrevContents == {<<"A", "env-var", "x">>, <<"B", "file", "y">>}

DesiredSecrets ==
    {SecretModel(id, c[1], c[2], c[3]) : id \in DesiredIDs, c \in DesiredContents}

SeqsUpTo(S, n) == UNION {[1..k -> S] : k \in 0..n}

AscendingIDs ==
    {s \in SeqsUpTo(1..MaxID, MaxID) : \A i \in 1..Len(s) - 1 : s[i] < s[i + 1]}

PrevSecretLists ==
    UNION {{[i \in 1..Len(ids) |->
                SecretModel(Int64Value(ids[i]), c[i][1], c[i][2], c[i][3])]
            : c \in [1..Len(ids) -> PrevContents]} : ids \in AscendingIDs}

NoRequest == [ProjectID |-> 0, Name |-> "", ID |-> 0, JSON |-> "", Env |-> "",
              Secrets |-> <<>>]
NoEnvironment == [ID |-> 0, ProjectID |-> 0, Name |-> "", JSON |-> "", Env |-> "",
                  Secrets |-> <<>>]
NoModel == [panic |-> FALSE, val |-> ZeroModel]
NoState == [set |-> FALSE, val |-> ZeroModel]
NoServer == [exists |-> FALSE, JSON |-> "", Env |-> "", Secrets |-> <<>>]
NoTrace == [handler |-> "none", calls |-> <<>>, error |-> FALSE]

InitDiff ==
    /\ \E l \in {ListNull, ListUnknown}
                \cup {ListValue(s) : s \in SeqsUpTo(DesiredSecrets, MaxDesired)} :
          env = EnvironmentModel(Int64Value(1), NilMap, PtrMap({}), l)
    /\ \E l \in {ListNull} \cup {ListValue(s) : s \in PrevSecretLists} :
          prev = IF l = ListNull THEN ZeroModel
                 ELSE EnvironmentModel(Int64Value(1), NilMap, PtrMap({}), l)
    /\ request = NoRequest
    /\ environment = NoEnvironment
    /\ model = NoModel
    /\ tfstate = NoState
    /\ server = NoServer
    /\ nextID = 1
    /\ configured = {}
    /\ last = "init"
    /\ trace = NoTrace
    /\ importID = <<>>

\* one call of convertProjectEnvironmentModelToEnvironmentRequest(env, prev)
ConvertRequest ==
    /\ last = "init"
    /\ request' = convertProjectEnvironmentModelToEnvironmentRequest(env, prev)
    /\ last' = "request"
    /\ UNCHANGED <<env, prev, environment, model, tfstate, server, nextID, configured,
                   trace, importID>>

NextDiff == ConvertRequest

SpecDiff == InitDiff /\ [][NextDiff]_vars

(***************************************************************************)
(* Properties of the diff (checked under SpecDiff)                         *)
(***************************************************************************)
Converted == last = "request"
desired == ListElements(env.Secrets)
previous == ListElements(prev.Secrets)
HasID(secret) == ~IsNull(secret.ID) /\ ~IsUnknown(secret.ID)
PreviousOf(secret) == {j \in 1..Len(previous) : previous[j].ID = secret.ID}
DesiredIDSet == {desired[i].ID : i \in 1..Len(desired)}
PreviousIDSet == {previous[j].ID : j \in 1..Len(previous)}

\* every desired secret has an identity and a previous secret that equals it
NoOpInput ==
    \A i \in 1..Len(desired) :
        /\ HasID(desired[i])
        /\ \E j \in PreviousOf(desired[i]) : previous[j] = desired[i]

\* C1 as stated: when every desired secret has an identity and equals the
\* previous secret of that identity, the request's secret list is empty.
C1_NoOpDiffIsEmpty == (Converted /\ NoOpInput) => request.Secrets = <<>>

\* C1: when every desired secret has an identity and equals the previous
\* secret of that identity, the request holds no create, update or delete for
\* them: each contributes one entry with the empty operation that carries its
\* identity, name and kind and no value; and nothing else is in the request
\* when the previous list holds no further identity.
C1_NoOpDiffHasNoOperation ==
    (Converted /\ NoOpInput) =>
        /\ Len(request.Secrets) >= Len(desired)
        /\ \A i \in 1..Len(desired) :
              request.Secrets[i] =
                  SecretRequest(desired[i].ID.v, desired[i].Name, desired[i].Type, "", "")
        /\ (PreviousIDSet \subseteq DesiredIDSet) =>
              Len(request.Secrets) = Len(desired)

C1_Witness ==
    /\ Converted /\ NoOpInput /\ Len(desired) = 2
    /\ desired[1].ID # desired[2].ID
    /\ Len(request.Secrets) = 2

\* a desired secret matched by identity with at least one changed field
ChangedMatch(i) ==
    /\ HasID(desired[i])
    /\ \E j \in PreviousOf(desired[i]) :
          /\ \A k \in PreviousOf(desired[i]) : j <= k
          /\ previous[j] # desired[i]

FirstPrevious(i) ==
    previous[CHOOSE j \in PreviousOf(desired[i]) :
                 \A k \in PreviousOf(desired[i]) : j <= k]

\* C2: a desired secret matched by identity with a changed name, kind or
\* value yields one update that carries the identity and only the changed
\* fields: name iff the name changed, kind iff the kind changed, value iff
\* the value changed; unchanged fields are empty.
C2_UpdateCarriesOnlyChangedFields ==
    Converted =>
        \A i \in 1..Len(desired) :
            ChangedMatch(i) =>
                LET p == FirstPrevious(i)
                IN  request.Secrets[i] =
                        SecretRequest(
                            desired[i].ID.v,
                            IF desired[i].Name # p.Name THEN desired[i].Name ELSE "",
                            IF desired[i].Type # p.Type THEN desired[i].Type ELSE "",
                            IF desired[i].Value # p.Value THEN desired[i].Value ELSE "",
                            "update")

\* what the code does for C2's case: the update always carries name and kind
C2_UpdateCarriesNameAndKind ==
    Converted =>
        \A i \in 1..Len(desired) :
            ChangedMatch(i) =>
                LET p == FirstPrevious(i)
                IN  request.Secrets[i] =
                        SecretRequest(
                            desired[i].ID.v, desired[i].Name, desired[i].Type,
                            IF desired[i].Value # p.Value THEN desired[i].Value ELSE "",
                            "update")

\* a desired secret whose identity is the identity of no previous secret
Unmatched(i) == HasID(desired[i]) /\ PreviousOf(desired[i]) = {}

\* C3 as stated: a desired secret with an identity that no previous secret
\* has yields a create carrying its name, kind and value.
C3_UnmatchedIdentityIsCreated ==
    Converted =>
        \A i \in 1..Len(desired) :
            Unmatched(i) =>
                /\ request.Secrets[i].Operation = "create"
                /\ request.Secrets[i].Name = desired[i].Name
                /\ request.Secrets[i].Type = desired[i].Type
                /\ request.Secrets[i].Secret = desired[i].Value

\* C3: a desired secret with an identity that no previous secret has
\* (every identified secret when previous is empty) yields no create: its
\* entry carries the identity, name and kind, the empty operation and no value.
C3_UnmatchedIdentityHasNoOperation ==
    Converted =>
        \A i \in 1..Len(desired) :
            Unmatched(i) =>
                request.Secrets[i] =
                    SecretRequest(desired[i].ID.v, desired[i].Name, desired[i].Type, "", "")

C3_Witness ==
    /\ Converted /\ prev = ZeroModel
    /\ Len(desired) = 2 /\ Unmatched(1) /\ Unmatched(2)
    /\ request.Secrets[1].Operation = ""

\* C4: every previous secret whose identity no desired secret has yields
\* exactly one delete carrying only that identity and its kind; a previous
\* secret whose identity a desired secret has yields no delete; the deletes
\* follow the entries of the desired secrets, in the order of previous.
C4_DeletesForMissingIdentities ==
    Converted =>
        LET n == Len(desired)
            ops == request.Secrets
            Deletes(id) == {k \in 1..Len(ops) :
                               ops[k].Operation = "delete" /\ ops[k].ID = id.v}
        IN  /\ \A j \in 1..Len(previous) :
                  IF previous[j].ID \in DesiredIDSet
                  THEN Deletes(previous[j].ID) = {}
                  ELSE /\ Cardinality(Deletes(previous[j].ID)) = 1
                       /\ \A k \in Deletes(previous[j].ID) :
                             ops[k] = SecretRequest(previous[j].ID.v, "",
                                                    previous[j].Type, "", "delete")
            /\ \A k \in 1..Len(ops) : (ops[k].Operation = "delete") <=> (k > n)
            /\ \A k1, k2 \in (n + 1)..Len(ops) :
                  k1 < k2 =>
                      \E j1, j2 \in 1..Len(previous) :
                          /\ j1 < j2
                          /\ previous[j1].ID.v = ops[k1].ID
                          /\ previous[j2].ID.v = ops[k2].ID

C4_Witness ==
    /\ Converted /\ Len(previous) = 2 /\ Len(desired) = 1
    /\ desired[1].ID = previous[2].ID
    /\ Len(request.Secrets) = 2
    /\ request.Secrets[2] = SecretRequest(previous[1].ID.v, "", previous[1].Type,
                                           "", "delete")

\* C5: every desired secret without an identity (null or unknown) yields
\* exactly one create carrying its name, kind and value and no identity, at
\* the position the secret has in the desired list, whatever previous holds.
C5_SecretWithoutIdentityIsCreated ==
    Converted =>
        /\ \A i \in 1..Len(desired) :
              ~HasID(desired[i]) =>
                  request.Secrets[i] =
                      SecretRequest(0, desired[i].Name, desired[i].Type,
                                    desired[i].Value, "create")
        /\ Cardinality({k \in 1..Len(request.Secrets) :
                            request.Secrets[k].Operation = "create"})
             = Cardinality({i \in 1..Len(desired) : ~HasID(desired[i])})

C5_Witness ==
    /\ Converted /\ Len(desired) = 2 /\ Len(previous) >= 1
    /\ HasID(desired[1]) /\ IsUnknown(desired[2].ID)
    /\ previous[1].Name = desired[2].Name /\ previous[1].Type = desired[2].Type
    /\ request.Secrets[2].Operation = "create"

(***************************************************************************)
(* Inputs of the merge: a read response and the previous model it is       *)
(* merged against (the plan of Create and Update, the state of Read, the   *)
(* zero model of ImportState). Either the two JSON texts and the previous  *)
(* maps range over all their values, or the secret lists do. The server    *)
(* gives every secret its own identity.                                    *)
(***************************************************************************)
PrevMaps == {NilMap} \cup {PtrMap(m) : m \in Maps}

ServerContents == {<<"A", "env-var">>, <<"B", "env-var">>, <<"A", "file">>}

ServerSecretLists ==
    {s \in SeqsUpTo({EnvironmentSecret(id, c[1], c[2]) :
                         id \in 1..MaxID, c \in ServerContents}, MaxServer) :
        \A i, j \in 1..Len(s) : i # j => s[i].ID # s[j].ID}

MergePrevContents ==
    {<<"A", "env-var", "x">>, <<"A", "file", "y">>, <<"B", "env-var", "y">>}

MergePrevSecrets ==
    {SecretModel(id, c[1], c[2], c[3]) :
        id \in {Int64Unknown} \cup {Int64Value(n) : n \in 1..MaxID},
        c \in MergePrevContents}

Response(json, envText, secrets) ==
    [ID |-> 1, ProjectID |-> 1, Name |-> "e", JSON |-> json, Env |-> envText,
     Secrets |-> secrets]

InitMergeMaps ==
    /\ \E json \in JSONTexts, envText \in JSONTexts,
          secrets \in {<<>>, <<EnvironmentSecret(1, "A", "env-var")>>} :
          environment = Response(json, envText, secrets)
    /\ \E pv \in PrevMaps, pe \in PrevMaps,
          l \in {ListNull,
                 ListValue(<<SecretModel(Int64Value(1), "A", "env-var", "x")>>)} :
          prev = EnvironmentModel(Int64Value(1), pv, pe, l)

InitMergeSecrets ==
    /\ \E secrets \in ServerSecretLists :
          environment = Response("{}", "{'a':'b'}", secrets)
    /\ \E l \in {ListNull, ListUnknown}
                \cup {ListValue(q) : q \in SeqsUpTo(MergePrevSecrets, MaxPrev)} :
          prev = IF l = ListNull THEN ZeroModel
                 ELSE EnvironmentModel(Int64Value(1), NilMap, PtrMap({}), l)

InitMerge ==
    /\ InitMergeMaps \/ InitMergeSecrets
    /\ env = ZeroModel
    /\ request = NoRequest
    /\ model = NoModel
    /\ tfstate = NoState
    /\ server = NoServer
    /\ nextID = 1
    /\ configured = {}
    /\ last = "init"
    /\ trace = NoTrace
    /\ importID = <<>>

\* one call of convertEnvironmentResponseToProjectEnvironmentModel(environment, prev)
ConvertResponse ==
    /\ last = "init"
    /\ model' = convertEnvironmentResponseToProjectEnvironmentModel(environment, prev)
    /\ last' = "model"
    /\ UNCHANGED <<env, prev, request, environment, tfstate, server, nextID, configured,
                   trace, importID>>

NextMerge == ConvertResponse

SpecMerge == InitMerge /\ [][NextMerge]_vars

(***************************************************************************)
(* Properties of the merge (checked under SpecMerge)                       *)
(***************************************************************************)
Merged == last = "model"
Returned == Merged /\ ~model.panic
mergedSecrets == model.val.Secrets.elems
PrevByID(id) == {j \in 1..Len(previous) : previous[j].ID = Int64Value(id)}
PrevByNameKind(name, kind) ==
    {j \in 1..Len(previous) : previous[j].Name = name /\ previous[j].Type = kind}
Min(S) == CHOOSE j \in S : \A k \in S : j <= k

\* the value C6 gives a server secret
ExpectedValue(secret) ==
    IF PrevByID(secret.ID) # {} THEN previous[Min(PrevByID(secret.ID))].Value
    ELSE IF PrevByNameKind(secret.Name, secret.Type) # {}
    THEN previous[Min(PrevByNameKind(secret.Name, secret.Type))].Value
    ELSE ""

\* C6: every server secret is merged with the value of the previous secret of
\* the same identity if there is one, else with the value of the first
\* previous secret of the same name and kind if there is one, else with the
\* empty string.
C6_MergedValueByIdentityThenNameKind ==
    Returned =>
        \A i \in 1..Len(environment.Secrets) :
            LET secret == environment.Secrets[i]
            IN  \E k \in 1..Len(mergedSecrets) :
                    mergedSecrets[k] =
                        SecretModel(Int64Value(secret.ID), secret.Name, secret.Type,
                                    ExpectedValue(secret))

\* previous [{no id, A, env-var, x}, {id 1, B, env-var, y}] and the server's
\* [{id 2, A, env-var}, {id 1, B, env-var}]: x by name and kind, y by identity
C6_Witness ==
    /\ Returned
    /\ prev.Secrets = ListValue(<<SecretModel(Int64Unknown, "A", "env-var", "x"),
                                   SecretModel(Int64Value(1), "B", "env-var", "y")>>)
    /\ environment.Secrets = <<EnvironmentSecret(2, "A", "env-var"),
                                EnvironmentSecret(1, "B", "env-var")>>
    /\ model.val.Secrets =
           ListValue(<<SecretModel(Int64Value(1), "B", "env-var", "y"),
                       SecretModel(Int64Value(2), "A", "env-var", "x")>>)

\* the map a JSON object text of the model stands for
ObjectMap(text) == IF text = "{}" THEN {} ELSE {<<"a", "b">>}

NormalizedMap(text, prevMap, mergedMap) ==
    text \in ObjectTexts =>
        /\ (ObjectMap(text) = {} /\ prevMap.isNil) => mergedMap = NilMap
        /\ (ObjectMap(text) = {} /\ ~prevMap.isNil) => mergedMap = PtrMap({})
        /\ ObjectMap(text) # {} => mergedMap = PtrMap(ObjectMap(text))

\* C8: for the generic variables and the runtime variables independently: an
\* empty server map merges to null when the previous field is null and to
\* the empty map when the previous field is set (even to the empty map); a
\* non-empty server map merges to itself whatever the previous field is.
C8_MapEmptinessNormalization ==
    Returned =>
        /\ NormalizedMap(environment.JSON, prev.Variables, model.val.Variables)
        /\ NormalizedMap(environment.Env, prev.Environment, model.val.Environment)

C8_Witness ==
    /\ Returned
    /\ environment.JSON = "{}" /\ prev.Variables.isNil
    /\ model.val.Variables = NilMap
    /\ environment.Env = "{}" /\ prev.Environment = PtrMap({})
    /\ model.val.Environment = PtrMap({})

\* C9: when the response has no secret and the previous secrets are a
\* non-empty list, the merged secrets are the previous secrets unchanged; in
\* every other case the merged list has exactly one entry per server secret.
C9_EmptyResponseKeepsPreviousSecrets ==
    Returned =>
        IF environment.Secrets = <<>>
           /\ prev.Secrets.st = "known" /\ prev.Secrets.elems # <<>>
        THEN model.val.Secrets = prev.Secrets
        ELSE /\ Len(mergedSecrets) = Len(environment.Secrets)
             /\ \A i \in 1..Len(environment.Secrets) :
                   Cardinality({k \in 1..Len(mergedSecrets) :
                                   mergedSecrets[k].ID
                                       = Int64Value(environment.Secrets[i].ID)}) = 1

C9_Witness ==
    /\ Returned
    /\ environment.Secrets = <<>>
    /\ Len(previous) = 2
    /\ IsUnknown(previous[1].ID)
    /\ model.val.Secrets = prev.Secrets

\* C10: a server text that does not decode to a string-to-string map never
\* makes the merge fail: the call completes and the merged field is what the
\* empty map would have given.
C10_UndecodableTextMergesAsEmptyMap ==
    Merged =>
        /\ ~model.panic
        /\ environment.JSON \notin ObjectTexts =>
              model.val.Variables = IF prev.Variables.isNil THEN NilMap ELSE PtrMap({})
        /\ environment.Env \notin ObjectTexts =>
              model.val.Environment
                  = IF prev.Environment.isNil THEN NilMap ELSE PtrMap({})

\* what the code does for C10's case: the merge panics exactly when one of
\* the two texts is the JSON literal null; every other undecodable text is
\* merged as the empty map
C10_OnlyNullPanics ==
    Merged =>
        /\ model.panic <=> (environment.JSON = "null" \/ environment.Env = "null")
        /\ ~model.panic =>
              /\ environment.JSON \notin ObjectTexts =>
                    model.val.Variables
                        = IF prev.Variables.isNil THEN NilMap ELSE PtrMap({})
              /\ environment.Env \notin ObjectTexts =>
                    model.val.Environment
                        = IF prev.Environment.isNil THEN NilMap ELSE PtrMap({})

\* the place of the i-th server secret in the ascending order of identities
Rank(i) ==
    1 + Cardinality({j \in 1..Len(environment.Secrets) :
                        environment.Secrets[j].ID < environment.Secrets[i].ID})

\* C14: a merged list built from a non-empty response is ordered by identity
\* ascending whatever the order of the response: every entry keeps the
\* identity, name and kind of its server secret, adjacent identities do not
\* decrease, and each server secret sits at the place its identity has in
\* the ascending order, so permuted responses merge to the same list.
C14_MergedSecretsAscendingByIdentity ==
    (Returned /\ environment.Secrets # <<>>) =>
        /\ Len(mergedSecrets) = Len(environment.Secrets)
        /\ \A k \in 1..Len(mergedSecrets) - 1 :
              mergedSecrets[k].ID.v <= mergedSecrets[k + 1].ID.v
        /\ \A i \in 1..Len(environment.Secrets) :
              /\ mergedSecrets[Rank(i)].ID = Int64Value(environment.Secrets[i].ID)
              /\ mergedSecrets[Rank(i)].Name = environment.Secrets[i].Name
              /\ mergedSecrets[Rank(i)].Type = environment.Secrets[i].Type

C14_Witness ==
    /\ Returned
    /\ Len(environment.Secrets) = 2
    /\ environment.Secrets[1].ID > environment.Secrets[2].ID
    /\ environment.Secrets[1].Name # environment.Secrets[2].Name
    /\ mergedSecrets[1].ID.v < mergedSecrets[2].ID.v
    /\ mergedSecrets[1].Name = environment.Secrets[2].Name

(***************************************************************************)
(* The remote server, as the handlers use it: it stores the environment's  *)
(* two JSON texts and its secrets, applies the secret operations of a      *)
(* write request in order (create assigns the next identity, update        *)
(* overwrites the fields the operation carries, delete removes the secret, *)
(* an entry with another operation is ignored) and never returns a value.  *)
(***************************************************************************)
StoredSecret(id, name, type, secret) ==
    [ID |-> id, Name |-> name, Type |-> type, Secret |-> secret]

RECURSIVE ApplyOperations(_, _, _, _)
ApplyOperations(stored, ops, i, next) ==
    IF i > Len(ops) THEN [Secrets |-> stored, next |-> next]
    ELSE LET op == ops[i]
         IN  CASE op.Operation = "create" ->
                    ApplyOperations(
                        Append(stored, StoredSecret(next, op.Name, op.Type, op.Secret)),
                        ops, i + 1, next + 1)
               [] op.Operation = "update" ->
                    ApplyOperations(
                        [k \in 1..Len(stored) |->
                            IF stored[k].ID # op.ID THEN stored[k]
                            ELSE StoredSecret(
                                     op.ID,
                                     IF op.Name # "" THEN op.Name ELSE stored[k].Name,
                                     IF op.Type # "" THEN op.Type ELSE stored[k].Type,
                                     IF op.Secret # "" THEN op.Secret
                                     ELSE stored[k].Secret)],
                        ops, i + 1, next)
               [] op.Operation = "delete" ->
                    ApplyOperations(
                        SelectSeq(stored, LAMBDA q : q.ID # op.ID), ops, i + 1, next)
               [] OTHER -> ApplyOperations(stored, ops, i + 1, next)

Creates(req) ==
    Cardinality({i \in 1..Len(req.Secrets) : req.Secrets[i].Operation = "create"})

\* the server after a write request
Written(req) ==
    LET applied == ApplyOperations(server.Secrets, req.Secrets, 1, nextID)
    IN  [exists |-> TRUE, JSON |-> req.JSON, Env |-> req.Env,
         Secrets |-> applied.Secrets]

\* the read response of a server: its secrets without values. The merge sorts
\* them, so the handlers are given one order that is not the sorted one:
\* the newest secret first.
ReadResponse(srv) ==
    LET n == Len(srv.Secrets)
    IN  Response(srv.JSON, srv.Env,
                 [i \in 1..n |->
                     EnvironmentSecret(srv.Secrets[n + 1 - i].ID,
                                       srv.Secrets[n + 1 - i].Name,
                                       srv.Secrets[n + 1 - i].Type)])

(***************************************************************************)
(* History: the pairs <<identity, value>> the user configured last for the *)
(* secrets of the server. A write sets the pair of every secret the plan   *)
(* creates (the identity the server assigns to it) and of every identified *)
(* secret of the plan, and drops the pairs of deleted secrets.             *)
(***************************************************************************)
RECURSIVE AssignedIDs(_, _, _)
AssignedIDs(ops, i, next) ==
    IF i > Len(ops) THEN <<>>
    ELSE IF ops[i].Operation = "create"
    THEN <<next>> \o AssignedIDs(ops, i + 1, next + 1)
    ELSE <<0>> \o AssignedIDs(ops, i + 1, next)

Configured(plan, req, after) ==
    LET planned == ListElements(plan.Secrets)
        assigned == AssignedIDs(req.Secrets, 1, nextID)
        idOf(i) == IF HasID(planned[i]) THEN planned[i].ID.v ELSE assigned[i]
        named == {idOf(i) : i \in 1..Len(planned)}
        live == {after.Secrets[k].ID : k \in 1..Len(after.Secrets)}
    IN  {c \in configured : c[1] \in live \ named}
        \cup {<<idOf(i), planned[i].Value>> : i \in {j \in 1..Len(planned) :
                                                        idOf(j) \in live}}

(***************************************************************************)
(* The plans Terraform hands to Create and Update: a secret is new         *)
(* (unknown identity) or carries an identity.                              *)
(***************************************************************************)
PlanContents ==
    {<<"A", "env-var", "x">>, <<"A", "env-var", "y">>, <<"B", "env-var", "x">>}

PlanSecrets(ids) ==
    {SecretModel(id, c[1], c[2], c[3]) : id \in ids, c \in PlanContents}

\* a new resource: the identities are unknown until the server assigns them
CreatePlans ==
    {EnvironmentModel(Int64Unknown, pv, PtrMap({<<"a", "b">>}), ListValue(q)) :
        pv \in {NilMap, PtrMap({})},
        q \in SeqsUpTo(PlanSecrets({Int64Unknown}), MaxPlan)}

\* a change of the resource: the secrets carry an identity of the state or
\* are new; the two maps are as in the state
StateIDs == {tfstate.val.Secrets.elems[i].ID : i \in 1..Len(tfstate.val.Secrets.elems)}

UpdatePlans ==
    {EnvironmentModel(tfstate.val.ID, tfstate.val.Variables,
                      tfstate.val.Environment, ListValue(q)) :
        q \in SeqsUpTo(PlanSecrets({Int64Unknown} \cup StateIDs), MaxPlan)}

Init ==
    /\ env = ZeroModel
    /\ prev = ZeroModel
    /\ request = NoRequest
    /\ environment = NoEnvironment
    /\ model = NoModel
    /\ tfstate = NoState
    /\ server = NoServer
    /\ nextID = 1
    /\ configured = {}
    /\ last = "init"
    /\ trace = NoTrace
    /\ importID = <<>>

(***************************************************************************)
(* The handlers. Each is one step: the diff, the write, the read-back, the *)
(* merge and the state. writeErr / readErr say whether the API call fails. *)
(* env, prev, request, environment and model are the variables of the two  *)
(* conversions alone, trace and importID are the variables of the traced   *)
(* handler runs below; these handlers leave them as they are.              *)
(***************************************************************************)
conversions == <<env, prev, request, environment, model, trace, importID>>

\* the read-back and the merge that end Create and Update, and all of Read:
\* on an API error or a panic the state is not set
ReadAndSet(srv, prevModel, readErr, op) ==
    IF readErr \/ ~srv.exists
    THEN last' = op \o ": read failed" /\ UNCHANGED tfstate
    ELSE LET merged == convertEnvironmentResponseToProjectEnvironmentModel(
                           ReadResponse(srv), prevModel)
         IN  IF merged.panic
             THEN last' = op \o ": panic" /\ UNCHANGED tfstate
             ELSE last' = op /\ tfstate' = [set |-> TRUE, val |-> merged.val]

Create(plan, writeErr, readErr) ==
    LET req == convertProjectEnvironmentModelToEnvironmentRequest(plan, ZeroModel)
    IN  /\ ~tfstate.set /\ ~server.exists
        /\ nextID + Creates(req) - 1 <= MaxServerID
        /\ IF writeErr
           THEN /\ last' = "Create: write failed"
                /\ UNCHANGED <<tfstate, server, nextID, configured>>
           ELSE /\ server' = Written(req)
                /\ nextID' = nextID + Creates(req)
                /\ configured' = Configured(plan, req, server')
                /\ ReadAndSet(server', plan, readErr, "Create")
        /\ UNCHANGED conversions

Read(readErr) ==
    /\ tfstate.set
    /\ ReadAndSet(server, tfstate.val, readErr, "Read")
    /\ UNCHANGED <<server, nextID, configured>>
    /\ UNCHANGED conversions

Update(plan, writeErr, readErr) ==
    LET req == convertProjectEnvironmentModelToEnvironmentRequest(plan, tfstate.val)
    IN  /\ tfstate.set
        /\ nextID + Creates(req) - 1 <= MaxServerID
        /\ IF writeErr \/ ~server.exists
           THEN /\ last' = "Update: write failed"
                /\ UNCHANGED <<tfstate, server, nextID, configured>>
           ELSE /\ server' = Written(req)
                /\ nextID' = nextID + Creates(req)
                /\ configured' = Configured(plan, req, server')
                /\ ReadAndSet(server', plan, readErr, "Update")
        /\ UNCHANGED conversions

\* a successful Delete removes the remote environment; the framework then
\* drops the state
Delete(deleteErr) ==
    /\ tfstate.set
    /\ IF deleteErr \/ ~server.exists
       THEN /\ last' = "Delete: delete failed"
            /\ UNCHANGED <<tfstate, server, configured>>
       ELSE /\ last' = "Delete"
            /\ tfstate' = NoState
            /\ server' = NoServer
            /\ configured' = {}
    /\ UNCHANGED nextID
    /\ UNCHANGED conversions

\* every API call succeeds
NextReliable ==
    \/ \E plan \in CreatePlans : Create(plan, FALSE, FALSE)
    \/ Read(FALSE)
    \/ \E plan \in UpdatePlans : Update(plan, FALSE, FALSE)
    \/ Delete(FALSE)

SpecReliable == Init /\ [][NextReliable]_vars

\* an API call may fail
Next ==
    \/ \E plan \in CreatePlans, w, r \in BOOLEAN : Create(plan, w, r)
    \/ \E r \in BOOLEAN : Read(r)
    \/ \E plan \in UpdatePlans, w, r \in BOOLEAN : Update(plan, w, r)
    \/ \E d \in BOOLEAN : Delete(d)

Spec == Init /\ [][Next]_vars

(***************************************************************************)
(* Properties of the handlers                                              *)
(***************************************************************************)
stateSecrets == tfstate.val.Secrets.elems

\* C7: after a successful Create and any successful Reads and Updates, every
\* secret of the persisted state carries the value the user configured last
\* for that secret.
C7_StateKeepsConfiguredValues ==
    tfstate.set =>
        \A i \in 1..Len(stateSecrets) :
            (\E c \in configured : c[1] = stateSecrets[i].ID.v) =>
                <<stateSecrets[i].ID.v, stateSecrets[i].Value>> \in configured

(***************************************************************************)
(* One traced handler run. The handlers above keep no record of what they  *)
(* did; the traced handlers are the same handlers, and they write down     *)
(* their inputs (env: the plan, prev: the prior state), the request they   *)
(* sent, the response they read (environment), the merged model and, in    *)
(* trace, the API calls and the State.Set they made, in order. A run       *)
(* starts from a fresh resource, from a managed one (a Create that         *)
(* succeeded) or from an orphaned one (a Create whose read-back failed:    *)
(* the environment exists, the state is unset), and nothing runs after it. *)
(***************************************************************************)
Call(api, project, environmentID, body, ok) ==
    [api |-> api, ProjectID |-> project, EnvironmentID |-> environmentID,
     body |-> body, ok |-> ok]

StateSet == Call("State.Set", 0, 0, NoRequest, TRUE)

\* the server knows one environment: environment 1 of project 1
Exists(srv, project, environmentID) ==
    srv.exists /\ project = 1 /\ environmentID = 1

Ended(handler, calls, error, outcome) ==
    /\ trace' = [handler |-> handler, calls |-> calls, error |-> error]
    /\ last' = handler \o outcome

\* the end of a handler whose GET succeeded: merge against prevModel and
\* State.Set; a panic of the merge ends the handler without State.Set
MergeAndSet(handler, calls, srv, prevModel) ==
    /\ environment' = ReadResponse(srv)
    /\ model' = convertEnvironmentResponseToProjectEnvironmentModel(
                    environment', prevModel)
    /\ IF model'.panic
       THEN /\ Ended(handler, calls, TRUE, ": panic")
            /\ UNCHANGED tfstate
       ELSE /\ Ended(handler, Append(calls, StateSet), FALSE, "")
            /\ tfstate' = [set |-> TRUE, val |-> model'.val]

\* variant: a failed GET is reported, and the state is set to prevModel
ReadBackTraced_SetsStateOnError(handler, calls, srv, project, environmentID, prevModel, readErr) ==
    IF readErr \/ ~Exists(srv, project, environmentID)
    THEN /\ Ended(handler,
                  calls \o <<Call("GET", project, environmentID, NoRequest, FALSE),
                             StateSet>>,
                  TRUE, ": read failed")
         /\ tfstate' = [set |-> TRUE, val |-> prevModel]
         /\ UNCHANGED <<environment, model>>
    ELSE MergeAndSet(handler,
                     Append(calls, Call("GET", project, environmentID, NoRequest, TRUE)),
                     srv, prevModel)

\* GET, merge against prevModel, State.Set: the end of every handler but
\* Delete. An API error ends the handler with a diagnostic and without
\* State.Set.
ReadBackTraced(handler, calls, srv, project, environmentID, prevModel, readErr) ==
    IF readErr \/ ~Exists(srv, project, environmentID)
    THEN /\ Ended(handler,
                  Append(calls, Call("GET", project, environmentID, NoRequest, FALSE)),
                  TRUE, ": read failed")
         /\ UNCHANGED <<environment, model, tfstate>>
    ELSE MergeAndSet(handler,
                     Append(calls, Call("GET", project, environmentID, NoRequest, TRUE)),
                     srv, prevModel)

\* Create may be handed identities too; the diff then looks them up in the
\* empty previous model
TracedCreatePlans ==
    {EnvironmentModel(Int64Unknown, pv, PtrMap({<<"a", "b">>}), ListValue(q)) :
        pv \in {NilMap, PtrMap({})},
        q \in SeqsUpTo(PlanSecrets({Int64Unknown, Int64Value(1)}), MaxPlan)}

CreateTraced(plan, writeErr, readErr) ==
    LET req == convertProjectEnvironmentModelToEnvironmentRequest(plan, ZeroModel)
        project == ValueInt64(plan.ProjectID)
        post == Call("POST", project, 0, req, ~writeErr)
    IN  /\ trace.handler = "none"
        /\ UNCHANGED importID
        /\ ~tfstate.set /\ ~server.exists
        /\ nextID + Creates(req) - 1 <= MaxServerID
        /\ env' = plan
        /\ prev' = ZeroModel
        /\ request' = req
        /\ IF writeErr
           THEN /\ Ended("Create", <<post>>, TRUE, ": write failed")
                /\ UNCHANGED <<environment, model, tfstate, server, nextID, configured>>
           ELSE /\ server' = Written(req)
                /\ nextID' = nextID + Creates(req)
                /\ configured' = Configured(plan, req, server')
                /\ ReadBackTraced("Create", <<post>>, server', 1, 1, plan, readErr)

ReadTraced(readErr) ==
    /\ trace.handler = "none"
    /\ UNCHANGED importID
    /\ tfstate.set
    /\ env' = ZeroModel
    /\ prev' = tfstate.val
    /\ request' = NoRequest
    /\ ReadBackTraced("Read", <<>>, server, ValueInt64(tfstate.val.ProjectID),
                      ValueInt64(tfstate.val.ID), tfstate.val, readErr)
    /\ UNCHANGED <<server, nextID, configured>>

\* variant: the deletes travel in a second PUT of their own
UpdateTraced_SplitWrite(plan, writeErr, readErr) ==
    LET req == convertProjectEnvironmentModelToEnvironmentRequest(plan, tfstate.val)
        project == ValueInt64(plan.ProjectID)
        environmentID == ValueInt64(plan.ID)
        failed == writeErr \/ ~Exists(server, project, environmentID)
        kept == [req EXCEPT !.Secrets =
                     SelectSeq(req.Secrets, LAMBDA q : q.Operation # "delete")]
        deletes == [req EXCEPT !.Secrets =
                        SelectSeq(req.Secrets, LAMBDA q : q.Operation = "delete")]
        puts == <<Call("PUT", project, environmentID, kept, ~failed)>> \o
                (IF failed \/ deletes.Secrets = <<>> THEN <<>>
                 ELSE <<Call("PUT", project, environmentID, deletes, TRUE)>>)
    IN  /\ trace.handler = "none"
        /\ UNCHANGED importID
        /\ tfstate.set
        /\ nextID + Creates(req) - 1 <= MaxServerID
        /\ env' = plan
        /\ prev' = tfstate.val
        /\ request' = req
        /\ IF failed
           THEN /\ Ended("Update", puts, TRUE, ": write failed")
                /\ UNCHANGED <<environment, model, tfstate, server, nextID, configured>>
           ELSE /\ server' = Written(req)
                /\ nextID' = nextID + Creates(req)
                /\ configured' = Configured(plan, req, server')
                /\ ReadBackTraced("Update", puts, server', project, environmentID,
                                  plan, readErr)

UpdateTraced(plan, writeErr, readErr) ==
    LET req == convertProjectEnvironmentModelToEnvironmentRequest(plan, tfstate.val)
        project == ValueInt64(plan.ProjectID)
        environmentID == ValueInt64(plan.ID)
        failed == writeErr \/ ~Exists(server, project, environmentID)
        put == Call("PUT", project, environmentID, req, ~failed)
    IN  /\ trace.handler = "none"
        /\ UNCHANGED importID
        /\ tfstate.set
        /\ nextID + Creates(req) - 1 <= MaxServerID
        /\ env' = plan
        /\ prev' = tfstate.val
        /\ request' = req
        /\ IF failed
           THEN /\ Ended("Update", <<put>>, TRUE, ": write failed")
                /\ UNCHANGED <<environment, model, tfstate, server, nextID, configured>>
           ELSE /\ server' = Written(req)
                /\ nextID' = nextID + Creates(req)
                /\ configured' = Configured(plan, req, server')
                /\ ReadBackTraced("Update", <<put>>, server', project, environmentID,
                                  plan, readErr)

DeleteTraced(deleteErr) ==
    LET project == ValueInt64(tfstate.val.ProjectID)
        environmentID == ValueInt64(tfstate.val.ID)
        failed == deleteErr \/ ~Exists(server, project, environmentID)
        delete == Call("DELETE", project, environmentID, NoRequest, ~failed)
    IN  /\ trace.handler = "none"
        /\ UNCHANGED importID
        /\ tfstate.set
        /\ env' = ZeroModel
        /\ prev' = tfstate.val
        /\ request' = NoRequest
        /\ IF failed
           THEN /\ Ended("Delete", <<delete>>, TRUE, ": delete failed")
                /\ UNCHANGED <<tfstate, server, configured>>
           ELSE /\ Ended("Delete", <<delete>>, FALSE, "")
                /\ tfstate' = NoState
                /\ server' = NoServer
                /\ configured' = {}
        /\ UNCHANGED <<environment, model, nextID>>

(***************************************************************************)
(* parseImportFields is not part of this file; it is modelled from its     *)
(* contract: the identifier is split on "/", the number of tokens must be  *)
(* the number of labels and every token must be a non-negative integer.    *)
(* An identifier is modelled by its tokens: "12/34" is <<"12", "34">> and  *)
(* the empty identifier is <<"">>.                                         *)
(***************************************************************************)
TokenValues == {<<"1", 1>>, <<"12", 12>>, <<"34", 34>>}

IsNumber(token) == \E t \in TokenValues : t[1] = token

NumberOf(token) == (CHOOSE t \in TokenValues : t[1] = token)[2]

parseImportFields(id, expectedLabels) ==
    IF Len(id) # Len(expectedLabels) \/ \E i \in 1..Len(id) : ~IsNumber(id[i])
    THEN [err |-> TRUE, fields |-> <<>>]
    ELSE [err |-> FALSE,
          fields |-> [l \in {expectedLabels[i] : i \in 1..Len(expectedLabels)} |->
                         NumberOf(id[CHOOSE i \in 1..Len(id) : expectedLabels[i] = l])]]

ImportIDs ==
    {<<"1", "1">>, <<"12", "34">>, <<"1", "12">>, <<"abc", "34">>, <<"1", "-1">>,
     <<"12">>, <<"1", "1", "1">>, <<"">>}

\* variant: the parse error is reported and the read is issued all the same,
\* for project 0 and environment 0
ImportState_ReadsUnparsed(id, readErr) ==
    LET parsed == parseImportFields(id, <<"project", "environment">>)
    IN  /\ trace.handler = "none"
        /\ importID' = id
        /\ ~tfstate.set
        /\ env' = ZeroModel
        /\ prev' = ZeroModel
        /\ request' = NoRequest
        /\ IF parsed.err
           THEN ReadBackTraced("ImportState", <<>>, server, 0, 0, ZeroModel, TRUE)
           ELSE ReadBackTraced("ImportState", <<>>, server, parsed.fields["project"],
                               parsed.fields["environment"], ZeroModel, readErr)
        /\ UNCHANGED <<server, nextID, configured>>

\* ImportState(req.ID = id): no state is read; the merge is against the
\* zero model
ImportState(id, readErr) ==
    LET parsed == parseImportFields(id, <<"project", "environment">>)
    IN  /\ trace.handler = "none"
        /\ importID' = id
        /\ ~tfstate.set
        /\ env' = ZeroModel
        /\ prev' = ZeroModel
        /\ request' = NoRequest
        /\ IF parsed.err
           THEN /\ Ended("ImportState", <<>>, TRUE, ": invalid import ID")
                /\ UNCHANGED <<environment, model, tfstate>>
           ELSE ReadBackTraced("ImportState", <<>>, server, parsed.fields["project"],
                               parsed.fields["environment"], ZeroModel, readErr)
        /\ UNCHANGED <<server, nextID, configured>>

\* the Create before the traced run: it succeeds, or its read-back fails
Setup(plan, readErr) ==
    /\ last = "init"
    /\ Create(plan, FALSE, readErr)

NextHandler ==
    \/ \E plan \in CreatePlans, r \in BOOLEAN : Setup(plan, r)
    \/ \E plan \in TracedCreatePlans, w, r \in BOOLEAN : CreateTraced(plan, w, r)
    \/ \E r \in BOOLEAN : ReadTraced(r)
    \/ \E plan \in UpdatePlans, w, r \in BOOLEAN : UpdateTraced(plan, w, r)
    \/ \E d \in BOOLEAN : DeleteTraced(d)
    \/ \E id \in ImportIDs, r \in BOOLEAN : ImportState(id, r)

SpecHandler == Init /\ [][NextHandler]_vars

(***************************************************************************)
(* Properties of one traced handler run                                    *)
(***************************************************************************)
Ran(handler) == trace.handler = handler
Calls(api) == {k \in 1..Len(trace.calls) : trace.calls[k].api = api}
Writes == Calls("POST") \cup Calls("PUT")
Reads == Calls("GET")
Sets == Calls("State.Set")
APICalls == Writes \cup Reads \cup Calls("DELETE")
FailedCalls == {k \in APICalls : ~trace.calls[k].ok}

\* the state is what it was when the handler started (prev records it; Create
\* and ImportState start without state)
StateUntouched ==
    tfstate = [set |-> trace.handler \in {"Read", "Update", "Delete"}, val |-> prev]

\* two secrets of the plan carry the same identity
DuplicateIdentity ==
    \E i, j \in 1..Len(desired) :
        i # j /\ HasID(desired[i]) /\ desired[i].ID = desired[j].ID

\* C11: a Create or an Update whose plan has two secrets of the same identity
\* reports an error, issues no write request (no API call at all) and leaves
\* the state as it was.
C11_DuplicateIdentityIsRejected ==
    ((Ran("Create") \/ Ran("Update")) /\ DuplicateIdentity) =>
        /\ trace.error
        /\ APICalls = {}
        /\ Sets = {}
        /\ StateUntouched

\* C12: when an API call of Create, Read, Update or ImportState fails, the
\* handler reports an error, the failed call is the last thing it does (no
\* further API call, no State.Set), no API call is made twice, and the state
\* is what it was before the handler: unset for Create and ImportState, the
\* prior state for Read and Update.
C12_FailedCallEndsHandler ==
    ((Ran("Create") \/ Ran("Read") \/ Ran("Update") \/ Ran("ImportState"))
        /\ FailedCalls # {}) =>
        /\ trace.error
        /\ FailedCalls = {Len(trace.calls)}
        /\ \A api \in {"POST", "PUT", "GET"} : Cardinality(Calls(api)) <= 1
        /\ Sets = {}
        /\ StateUntouched

\* Create's write succeeded and its read-back failed: the environment exists
\* on the server and the state is unset
C12_Witness ==
    /\ Ran("Create")
    /\ Len(trace.calls) = 2
    /\ trace.calls[1].api = "POST" /\ trace.calls[1].ok
    /\ trace.calls[2].api = "GET" /\ ~trace.calls[2].ok
    /\ server.exists
    /\ Len(server.Secrets) = 2
    /\ ~tfstate.set

\* the operations of a request
Operations(req) ==
    {req.Secrets[i].Operation : i \in 1..Len(req.Secrets)} \cap
        {"create", "update", "delete"}

\* C13: every Create and every Update issues exactly one write, first, whose
\* secrets are the whole diff of the plan against the prior state; at most
\* one read, second and only after the write succeeded; at most one
\* State.Set, third and only after the read succeeded, and the state is then
\* the merge of that read's response against the plan.
C13_DiffWriteReadMergeSet ==
    (Ran("Create") \/ Ran("Update")) =>
        /\ Writes = {1}
        /\ trace.calls[1].body.Secrets =
               convertProjectEnvironmentModelToEnvironmentRequest(env, prev).Secrets
        /\ Reads \subseteq {2}
        /\ Reads # {} => trace.calls[1].ok
        /\ Sets \subseteq {3}
        /\ Sets # {} =>
               /\ Reads = {2} /\ trace.calls[2].ok
               /\ environment = ReadResponse(server)
               /\ tfstate =
                      [set |-> TRUE,
                       val |-> convertEnvironmentResponseToProjectEnvironmentModel(
                                   environment, env).val]
        /\ Sets = {} => StateUntouched
        /\ Len(trace.calls) <= 3

\* an Update whose one write carries two kinds of operation, followed by the
\* read and State.Set
C13_Witness ==
    /\ Ran("Update")
    /\ Len(trace.calls) = 3
    /\ Cardinality(Operations(trace.calls[1].body)) >= 2
    /\ "delete" \in Operations(trace.calls[1].body)
    /\ Sets = {3}

\* C15: an ImportState whose identifier does not parse for the labels
\* project, environment reports an error, issues no API call and sets no
\* state; one whose identifier parses issues exactly one read, for that
\* project and environment, and when the read succeeds the state is the merge
\* of the response against the zero model: one secret per secret of the
\* server, each with the empty string as value.
C15_ImportParsesThenReadsOnce ==
    Ran("ImportState") =>
        LET parsed == parseImportFields(importID, <<"project", "environment">>)
        IN  IF parsed.err
            THEN /\ trace.error
                 /\ trace.calls = <<>>
                 /\ ~tfstate.set
            ELSE /\ APICalls = {1}
                 /\ trace.calls[1].api = "GET"
                 /\ trace.calls[1].ProjectID = parsed.fields["project"]
                 /\ trace.calls[1].EnvironmentID = parsed.fields["environment"]
                 /\ ~trace.calls[1].ok => (trace.error /\ ~tfstate.set)
                 /\ trace.calls[1].ok =>
                        /\ Sets = {2}
                        /\ tfstate =
                               [set |-> TRUE,
                                val |-> convertEnvironmentResponseToProjectEnvironmentModel(
                                            ReadResponse(server), ZeroModel).val]
                        /\ Len(stateSecrets) = Len(server.Secrets)
                        /\ \A i \in 1..Len(stateSecrets) : stateSecrets[i].Value = ""

\* the import of an environment with two secrets that have values on the
\* server
C15_Witness ==
    /\ Ran("ImportState")
    /\ importID = <<"1", "1">>
    /\ Sets = {2}
    /\ Len(stateSecrets) = 2
    /\ \A k \in 1..Len(server.Secrets) : server.Secrets[k].Secret # ""

(***************************************************************************)
(* Convergence: a traced Create or Update that succeeded (env is its       *)
(* plan, the desired configuration D), followed by one more handler: a     *)
(* Read, or an Update with D again. Terraform fills the identities of the  *)
(* second plan from the state, position by position; a secret beyond the   *)
(* state's list is new.                                                    *)
(***************************************************************************)
SameDesired(plan, state) ==
    LET planned == ListElements(plan.Secrets)
        stored == ListElements(state.Secrets)
    IN  EnvironmentModel(state.ID, plan.Variables, plan.Environment,
            ListValue([i \in 1..Len(planned) |->
                SecretModel(IF i <= Len(stored) THEN stored[i].ID ELSE Int64Unknown,
                            planned[i].Name, planned[i].Type, planned[i].Value)]))

Applied == trace.handler \in {"Create", "Update"} /\ ~trace.error

ReadAgain ==
    /\ Applied
    /\ prev' = tfstate.val
    /\ ReadBackTraced("Read again", <<>>, server, ValueInt64(tfstate.val.ProjectID),
                      ValueInt64(tfstate.val.ID), tfstate.val, FALSE)
    /\ UNCHANGED <<env, request, server, nextID, configured, importID>>

UpdateAgain ==
    LET plan == SameDesired(env, tfstate.val)
        req == convertProjectEnvironmentModelToEnvironmentRequest(plan, tfstate.val)
        project == ValueInt64(plan.ProjectID)
        environmentID == ValueInt64(plan.ID)
    IN  /\ Applied
        /\ nextID + Creates(req) - 1 <= MaxServerID
        /\ env' = plan
        /\ prev' = tfstate.val
        /\ request' = req
        /\ server' = Written(req)
        /\ nextID' = nextID + Creates(req)
        /\ configured' = Configured(plan, req, server')
        /\ ReadBackTraced("Update again",
                          <<Call("PUT", project, environmentID, req, TRUE)>>,
                          server', project, environmentID, plan, FALSE)
        /\ UNCHANGED importID

NextConverge ==
    \/ \E plan \in CreatePlans : Setup(plan, FALSE)
    \/ \E plan \in CreatePlans : CreateTraced(plan, FALSE, FALSE)
    \/ \E plan \in UpdatePlans : UpdateTraced(plan, FALSE, FALSE)
    \/ ReadAgain
    \/ UpdateAgain

SpecConverge == Init /\ [][NextConverge]_vars

\* the state the second plan was filled from lists the secrets of D, in the
\* order of D
Aligned ==
    /\ Len(desired) = Len(previous)
    /\ \A i \in 1..Len(desired) :
          /\ desired[i].Name = previous[i].Name
          /\ desired[i].Type = previous[i].Type

\* C16: after a successful Create or Update with D, a following Read leaves
\* the state unchanged, and a following Update with D (identities from the
\* state) sends no create, update or delete and leaves the state unchanged.
C16_ReconciliationConverges ==
    /\ Ran("Read again") => (~trace.error /\ tfstate = [set |-> TRUE, val |-> prev])
    /\ (Ran("Update again") /\ Aligned) =>
          /\ ~trace.error
          /\ Operations(request) = {}
          /\ tfstate = [set |-> TRUE, val |-> prev]

====
